---- MODULE Spec2Model ----
(***************************************************************************)
(* Model of the socket layer of the chat backend (websocket.ts):           *)
(* the in-memory list of connected users, the handshake authentication     *)
(* middleware and the event handlers installed on every admitted socket.   *)
(* All handlers run on one event loop, so each handler is one atomic       *)
(* action; the only suspension point is the await of User.findById in the  *)
(* middleware, which splits the handshake in two steps.                    *)
(***************************************************************************)
EXTENDS Integers, Sequences, FiniteSets, TLC

\* Number of sockets that ever connect. A socket id is never reused, and the
\* sockets are numbered in the order their handshakes arrive.
MaxConns == 2
\* Number of distinct user ids that clients put in tokens and payloads.
MaxUsers == 2

Conns == 1..MaxConns
UserIds == 1..MaxUsers
ChatIds == {"c1"}
Contents == {"hi"}
MessageIdLists == {<<"m1">>}
\* senderId is only copied into the getMessage payload.
SenderIds == {1}

\* `undefined`: no user id / no socket id / no record.
NoId == 0
NoUser == [userId |-> NoId, socketId |-> NoId]

\* socket.handshake.auth.token: absent, failing jwt.verify, or verified.
Tokens == {"missing", "invalid", "valid"}

\* What `await User.findById(decoded.id)` can do: throw, resolve to null, or
\* resolve to the document of user decoded.id. The id a verified token carries
\* is read nowhere else, so it is drawn here, where it is first used.
NullDoc == NoId
Throws == -1
FindOutcomes == {Throws, NullDoc} \cup UserIds

ErrTokenNotProvided == "Authentication error: Token not provided"
ErrUserNotFound == "Authentication error: User not found"
ErrInvalidToken == "Authentication error: Invalid token"
NoError == "none"

VARIABLES
  users,      \* let users: SocketUser[]
  before,     \* the value of users when the last step began
  status,     \* per socket: "new", "findById", "connected", "rejected", "disconnected"
  dataUser,   \* per socket: socket.data.user (the id of the resolved user)
  nextErr,    \* the Error message the middleware of the last step passed to next()
  listening,  \* sockets on which the 'connection' callback installed the handlers
  last,       \* the event handled by the last step
  emitted     \* the events emitted by the last step, in order

vars == <<users, before, status, dataUser, nextErr, listening, last, emitted>>

----------------------------------------------------------------------------
\* The registry helpers (closures over `users` in the source).

RECURSIVE SeqSome(_, _)
SeqSome(us, userId) ==
  IF us = <<>> THEN FALSE
  ELSE Head(us).userId = userId \/ SeqSome(Tail(us), userId)

addUserNoCheck(us, userId, socketId) ==
  Append(us, [userId |-> userId, socketId |-> socketId])

addUserOverwrite(us, userId, socketId) ==
  IF SeqSome(us, userId)
    THEN [i \in DOMAIN us |->
            IF us[i].userId = userId
              THEN [userId |-> userId, socketId |-> socketId] ELSE us[i]]
    ELSE Append(us, [userId |-> userId, socketId |-> socketId])

addUser(us, userId, socketId) ==
  IF ~SeqSome(us, userId)
    THEN Append(us, [userId |-> userId, socketId |-> socketId])
    ELSE us

removeUserPop(us, socketId) ==
  IF \E i \in DOMAIN us : us[i].socketId = socketId
    THEN SelectSeq(us, LAMBDA user : user.socketId # socketId)
    ELSE SubSeq(us, 1, Len(us) - 1)

removeUserKeep(us, socketId) == us

removeUserByUserId(us, socketId) ==
  SelectSeq(us, LAMBDA user : user.userId # socketId)

removeUser(us, socketId) ==
  SelectSeq(us, LAMBDA user : user.socketId # socketId)

RECURSIVE SeqFind(_, _)
SeqFind(us, userId) ==
  IF us = <<>> THEN NoUser
  ELSE IF Head(us).userId = userId THEN Head(us) ELSE SeqFind(Tail(us), userId)

getUser(us, userId) == SeqFind(us, userId)

----------------------------------------------------------------------------
\* socket.io delivery: io.emit reaches every connected socket, io.to(id)
\* reaches the sockets in room id, i.e. the connected socket with that id.

Connected(st) == {c \in Conns : st[c] = "connected"}

Room(st, socketId) == {c \in Connected(st) : c = socketId}

Emission(event, to, data) == [event |-> event, to |-> to, data |-> data]

NoEvent ==
  [op |-> "init", conn |-> NoId, input |-> "", userId |-> NoId, senderId |-> NoId,
   receiverId |-> NoId, chatId |-> "", content |-> "", messageIds |-> <<>>]

Init ==
  /\ users = <<>>
  /\ before = <<>>
  /\ status = [c \in Conns |-> "new"]
  /\ dataUser = [c \in Conns |-> NoId]
  /\ nextErr = NoError
  /\ listening = {}
  /\ last = NoEvent
  /\ emitted = <<>>

----------------------------------------------------------------------------
\* Authentication middleware, up to the await.
\* Result of the synchronous part: an error for next(), or NoError to go on.

TokenCheck(token) ==
  IF token = "missing" THEN ErrTokenNotProvided
  ELSE IF token = "invalid" THEN ErrInvalidToken
  ELSE NoError

\* Result of the part after the await.
LookupCheckNoNull(outcome) ==
  IF outcome = Throws THEN ErrInvalidToken ELSE NoError

LookupCheck(outcome) ==
  IF outcome = Throws THEN ErrInvalidToken
  ELSE IF outcome = NullDoc THEN ErrUserNotFound
  ELSE NoError

\* Sockets are numbered by arrival: socket c starts its handshake once every
\* lower-numbered socket has started its own (handshakes still overlap).
Handshake(c, token) ==
  /\ status[c] = "new"
  /\ \A d \in Conns : d < c => status[d] # "new"
  /\ LET err == TokenCheck(token) IN
       /\ nextErr' = err
       /\ status' = [status EXCEPT ![c] = IF err = NoError THEN "findById" ELSE "rejected"]
  /\ last' = [NoEvent EXCEPT !.op = "handshake", !.conn = c, !.input = token]
  /\ emitted' = <<>>
  /\ before' = users
  /\ UNCHANGED <<users, dataUser, listening>>

\* The await resumes; on success next() admits the socket and the
\* 'connection' callback installs its handlers.
FindByIdDone(c, outcome) ==
  /\ status[c] = "findById"
  /\ LET err == LookupCheck(outcome) IN
       /\ nextErr' = err
       /\ status' = [status EXCEPT ![c] = IF err = NoError THEN "connected" ELSE "rejected"]
       /\ dataUser' = [dataUser EXCEPT ![c] = IF err = NoError THEN outcome ELSE NoId]
       /\ listening' = IF err = NoError THEN listening \cup {c} ELSE listening
  /\ last' = [NoEvent EXCEPT !.op = "findById", !.conn = c, !.userId = outcome]
  /\ emitted' = <<>>
  /\ before' = users
  /\ UNCHANGED users

----------------------------------------------------------------------------
\* Handlers of an admitted socket.

CanHandle(c) == c \in listening /\ status[c] = "connected"

RosterBefore(old, new) == old

\* The roster `io.emit('getUsers', users)` reads: users after addUser/removeUser.
Roster(old, new) == new

OnAddUser(c, userId) ==
  /\ CanHandle(c)
  /\ users' = addUser(users, userId, c)
  /\ emitted' = <<Emission("getUsers", Connected(status), Roster(users, users'))>>
  /\ last' = [NoEvent EXCEPT !.op = "addUser", !.conn = c, !.userId = userId]
  /\ nextErr' = NoError
  /\ before' = users
  /\ UNCHANGED <<status, dataUser, listening>>

OnDisconnect(c) ==
  /\ CanHandle(c)
  /\ status' = [status EXCEPT ![c] = "disconnected"]
  /\ dataUser' = [dataUser EXCEPT ![c] = NoId]
  /\ users' = removeUser(users, c)
  /\ emitted' = <<Emission("getUsers", Connected(status'), Roster(users, users'))>>
  /\ last' = [NoEvent EXCEPT !.op = "disconnect", !.conn = c]
  /\ nextErr' = NoError
  /\ before' = users
  /\ UNCHANGED listening

\* getMessage payload; createdAt (new Date()) is wall-clock time and is left out.
MessagePayload(senderId, content, chatId) ==
  [senderId |-> senderId, content |-> content, chatId |-> chatId]

SendTargetSender(us, st, c, receiverId) ==
  Room(st, c)

\* The sockets `io.to(user.socketId)` addresses for a found receiver.
SendTarget(us, st, c, receiverId) ==
  Room(st, getUser(us, receiverId).socketId)

OnSendMessageAlways(c, senderId, receiverId, chatId, content) ==
  /\ CanHandle(c)
  /\ emitted' = <<Emission("getMessage", SendTarget(users, status, c, receiverId),
                           MessagePayload(senderId, content, chatId))>>
  /\ last' = [NoEvent EXCEPT !.op = "sendMessage", !.conn = c, !.senderId = senderId,
                !.receiverId = receiverId, !.chatId = chatId, !.content = content]
  /\ nextErr' = NoError
  /\ before' = users
  /\ UNCHANGED <<users, status, dataUser, listening>>

OnSendMessage(c, senderId, receiverId, chatId, content) ==
  /\ CanHandle(c)
  /\ LET user == getUser(users, receiverId) IN
       emitted' =
         IF user # NoUser
           THEN <<Emission("getMessage", SendTarget(users, status, c, receiverId),
                           MessagePayload(senderId, content, chatId))>>
           ELSE <<>>
  /\ last' = [NoEvent EXCEPT !.op = "sendMessage", !.conn = c, !.senderId = senderId,
                !.receiverId = receiverId, !.chatId = chatId, !.content = content]
  /\ nextErr' = NoError
  /\ before' = users
  /\ UNCHANGED <<users, status, dataUser, listening>>

chatParticipantsAll(us, userId) == us

\* users.filter((user) => user.userId !== userId)
chatParticipants(us, userId) ==
  SelectSeq(us, LAMBDA user : user.userId # userId)

\* chatParticipants.forEach((participant) => io.to(participant.socketId).emit(...))
Notify(event, us, st, userId, data) ==
  LET parts == chatParticipants(us, userId) IN
    [i \in 1..Len(parts) |-> Emission(event, Room(st, parts[i].socketId), data)]

OnTyping(c, chatId, userId) ==
  /\ CanHandle(c)
  /\ emitted' = Notify("userTyping", users, status, userId,
                       [chatId |-> chatId, userId |-> userId])
  /\ last' = [NoEvent EXCEPT !.op = "typing", !.conn = c, !.chatId = chatId,
                !.userId = userId]
  /\ nextErr' = NoError
  /\ before' = users
  /\ UNCHANGED <<users, status, dataUser, listening>>

OnStopTyping(c, chatId, userId) ==
  /\ CanHandle(c)
  /\ emitted' = Notify("userStoppedTyping", users, status, userId,
                       [chatId |-> chatId, userId |-> userId])
  /\ last' = [NoEvent EXCEPT !.op = "stopTyping", !.conn = c, !.chatId = chatId,
                !.userId = userId]
  /\ nextErr' = NoError
  /\ before' = users
  /\ UNCHANGED <<users, status, dataUser, listening>>

OnMarkAsRead(c, chatId, userId, messageIds) ==
  /\ CanHandle(c)
  /\ emitted' = Notify("messagesRead", users, status, userId,
                       [chatId |-> chatId, userId |-> userId, messageIds |-> messageIds])
  /\ last' = [NoEvent EXCEPT !.op = "markAsRead", !.conn = c, !.chatId = chatId,
                !.userId = userId, !.messageIds = messageIds]
  /\ nextErr' = NoError
  /\ before' = users
  /\ UNCHANGED <<users, status, dataUser, listening>>

\* History for reachability: per socket, the user ids it has emitted addUser
\* with since it was admitted (not program state).
VARIABLE announced

ReachInit == announced = [c \in Conns |-> {}]

----------------------------------------------------------------------------
(***************************************************************************)
(* The chat controller (chatController.ts): createOrGetChat and sendMessage *)
(* over the Chat and Message collections. Each await is a suspension point, *)
(* so a request is a sequence of steps that interleave with the steps of    *)
(* other requests; a database operation takes effect in the step that       *)
(* resumes after it.                                                        *)
(***************************************************************************)

\* Number of HTTP requests to the chat routes; they are numbered by arrival.
MaxReqs == 2

Reqs == 1..MaxReqs
\* The User collection holds UserIds; GhostId is a well-formed id of no user.
GhostId == MaxUsers + 1
AnyUserIds == UserIds \cup {GhostId}
\* req.body.participants
ParticipantLists ==
  {<<>>} \cup {<<u>> : u \in AnyUserIds} \cup {<<u, v>> : u, v \in AnyUserIds}
\* req.body.chatId: absent, or the id of the first chat document.
ChatIdInputs == {NoId, 1}

VARIABLES
  chats,     \* the Chat collection: the participants array of each document, _id = position
  messages,  \* the Message collection
  req        \* per request: the handler it runs, where it is suspended, its locals, its response

chatVars == <<chats, messages, req>>

Range(f) == {f[k] : k \in DOMAIN f}

NoRequest ==
  [op |-> "none", pc |-> "idle", caller |-> NoId, participants |-> <<>>,
   receiverId |-> NoId, chatId |-> NoId, content |-> "", code |-> NoId, body |-> NoId]

ChatInit ==
  /\ chats = <<>>
  /\ messages = <<>>
  /\ req = [r \in Reqs |-> NoRequest]

\* if (!participants.includes(userId.toString())) participants.push(userId.toString())
WithCaller(participants, userId) ==
  IF userId \in Range(participants) THEN participants ELSE Append(participants, userId)

\* User.countDocuments({ _id: { $in: ids } })
CountUsers(ids) == Cardinality({u \in UserIds : u \in Range(ids)})

\* { participants: { $all: ids, $size: n } }
MatchAllSize(chat, ids, n) ==
  /\ \A k \in DOMAIN ids : ids[k] \in Range(chat)
  /\ Len(chat) = n

\* Chat.findOne(...): the _id of the first matching document, or NoId for null.
FindOneChat(cs, ids, n) ==
  IF \E i \in DOMAIN cs : MatchAllSize(cs[i], ids, n)
    THEN CHOOSE i \in DOMAIN cs :
           /\ MatchAllSize(cs[i], ids, n)
           /\ \A j \in DOMAIN cs : MatchAllSize(cs[j], ids, n) => i <= j
    ELSE NoId

Respond(r, code, body) ==
  [req EXCEPT ![r].pc = "done", ![r].code = code, ![r].body = body]

\* createOrGetChat up to `await User.countDocuments`.
ChatStart(r, caller, participants) ==
  /\ req[r].op = "none"
  /\ \A q \in Reqs : q < r => req[q].op # "none"
  /\ req' = [req EXCEPT ![r] =
               [NoRequest EXCEPT !.op = "createOrGetChat", !.pc = "countUsers",
                  !.caller = caller, !.participants = WithCaller(participants, caller)]]
  /\ UNCHANGED <<chats, messages>>

ChatCountDone(r) ==
  /\ req[r].op = "createOrGetChat" /\ req[r].pc = "countUsers"
  /\ req' = IF CountUsers(req[r].participants) # Len(req[r].participants)
              THEN Respond(r, 400, NoId)
              ELSE [req EXCEPT ![r].pc = "findOne"]
  /\ UNCHANGED <<chats, messages>>

ChatFindOneDone(r) ==
  /\ req[r].op = "createOrGetChat" /\ req[r].pc = "findOne"
  /\ LET existingChat ==
           FindOneChat(chats, req[r].participants, Len(req[r].participants)) IN
       req' = IF existingChat # NoId
                THEN Respond(r, 200, existingChat)
                ELSE [req EXCEPT ![r].pc = "create"]
  /\ UNCHANGED <<chats, messages>>

ChatCreateDone(r) ==
  /\ req[r].op = "createOrGetChat" /\ req[r].pc = "create"
  /\ chats' = Append(chats, req[r].participants)
  /\ req' = [req EXCEPT ![r].pc = "populate", ![r].body = Len(chats')]
  /\ UNCHANGED messages

ChatPopulateDone(r) ==
  /\ req[r].op = "createOrGetChat" /\ req[r].pc = "populate"
  /\ req' = Respond(r, 201, req[r].body)
  /\ UNCHANGED <<chats, messages>>

\* sendMessage up to its first await.
MsgStart(r, senderId, content, chatId, receiverId) ==
  /\ req[r].op = "none"
  /\ \A q \in Reqs : q < r => req[q].op # "none"
  /\ LET fresh == [NoRequest EXCEPT !.op = "sendMessage", !.caller = senderId,
                     !.content = content, !.chatId = chatId, !.receiverId = receiverId] IN
       req' = [req EXCEPT ![r] =
                 IF chatId = NoId /\ receiverId # NoId
                   THEN [fresh EXCEPT !.pc = "findReceiver"]
                 ELSE IF chatId = NoId
                   THEN [fresh EXCEPT !.pc = "done", !.code = 400]
                 ELSE [fresh EXCEPT !.pc = "verify"]]
  /\ UNCHANGED <<chats, messages>>

MsgFindReceiverDone(r) ==
  /\ req[r].op = "sendMessage" /\ req[r].pc = "findReceiver"
  /\ req' = IF req[r].receiverId \notin UserIds
              THEN Respond(r, 404, NoId)
              ELSE [req EXCEPT ![r].pc = "findChat"]
  /\ UNCHANGED <<chats, messages>>

MsgFindChatDone(r) ==
  /\ req[r].op = "sendMessage" /\ req[r].pc = "findChat"
  /\ LET existingChat == FindOneChat(chats, <<req[r].caller, req[r].receiverId>>, 2) IN
       req' = IF existingChat # NoId
                THEN [req EXCEPT ![r].pc = "verify", ![r].chatId = existingChat]
                ELSE [req EXCEPT ![r].pc = "createChat"]
  /\ UNCHANGED <<chats, messages>>

MsgCreateChatDone(r) ==
  /\ req[r].op = "sendMessage" /\ req[r].pc = "createChat"
  /\ chats' = Append(chats, <<req[r].caller, req[r].receiverId>>)
  /\ req' = [req EXCEPT ![r].pc = "verify", ![r].chatId = Len(chats')]
  /\ UNCHANGED messages

\* Chat.findOne({ _id: finalChatId, participants: senderId })
MsgVerifyDone(r) ==
  /\ req[r].op = "sendMessage" /\ req[r].pc = "verify"
  /\ req' = IF /\ req[r].chatId \in DOMAIN chats
               /\ req[r].caller \in Range(chats[req[r].chatId])
              THEN [req EXCEPT ![r].pc = "createMessage"]
              ELSE Respond(r, 403, NoId)
  /\ UNCHANGED <<chats, messages>>

MsgCreateMessageDone(r) ==
  /\ req[r].op = "sendMessage" /\ req[r].pc = "createMessage"
  /\ messages' = Append(messages, [chat |-> req[r].chatId, sender |-> req[r].caller,
                                   content |-> req[r].content])
  /\ req' = [req EXCEPT ![r].pc = "populate", ![r].body = Len(messages')]
  /\ UNCHANGED chats

\* Chat.findByIdAndUpdate (updatedAt, not modelled) and Message.findById, then 201.
MsgPopulateDone(r) ==
  /\ req[r].op = "sendMessage" /\ req[r].pc = "populate"
  /\ req' = Respond(r, 201, req[r].body)
  /\ UNCHANGED <<chats, messages>>

----------------------------------------------------------------------------
(***************************************************************************)
(* Server start-up (server.ts, config/db.ts). The module body runs to       *)
(* completion first: it registers the base middleware and routes, starts    *)
(* the async block up to `await mongoose.connect` inside connectDB, then    *)
(* registers the error handler and the catch-all and calls app.listen. The  *)
(* async block resumes in a later step. Express tries the layers of the     *)
(* stack in the order they were registered.                                 *)
(***************************************************************************)

\* Number of HTTP requests the server is sent.
MaxRequests == 2

Methods == {"GET", "POST"}
Paths == {"/api/items", "/api/test", "/", "/nope"}

VARIABLES
  stack,    \* the layers of app, in registration order
  proc,     \* "loading", "running" (module body done), "exited" (process.exit(1))
  db,       \* "idle", "connecting", "connected", "failed"
  accepts,  \* the app.listen socket accepts connections
  reqLog    \* the requests sent so far, each with the response it got

serverVars == <<stack, proc, db, accepts, reqLog>>

ServerInit ==
  /\ stack = <<>>
  /\ proc = "loading"
  /\ db = "idle"
  /\ accepts = FALSE
  /\ reqLog = <<>>

\* app.use(fn): every request, passes on.   app.get(path, fn): GET of that path.
\* app.use(path, fn): every method, paths under path.   app.use(fn) last: everything.
BaseLayers == <<"cors", "json", "urlencoded", "GET /api/test", "GET /">>
TailLayers == <<"errorHandler", "notFound">>

Matches(layer, method, path) ==
  CASE layer = "GET /api/test" -> method = "GET" /\ path = "/api/test"
    [] layer = "GET /" -> method = "GET" /\ path = "/"
    [] layer \in {"itemRoutes", "itemsUnavailable"} -> path = "/api/items"
    [] layer = "notFound" -> TRUE
    [] OTHER -> FALSE

Reply(layer, method) ==
  CASE layer = "itemRoutes" ->
         [by |-> layer, status |-> IF method = "GET" THEN 200 ELSE 201, error |-> ""]
    [] layer = "itemsUnavailable" ->
         [by |-> layer, status |-> 503, error |-> "Database connection failed"]
    [] layer = "notFound" -> [by |-> layer, status |-> 404, error |-> ""]
    [] OTHER -> [by |-> layer, status |-> 200, error |-> ""]

NoReply == [by |-> "none", status |-> 0, error |-> ""]

\* The first layer of the stack that answers; cors, the body parsers and the
\* 4-argument error handler pass a normal request on.
RECURSIVE Dispatch(_, _, _)
Dispatch(layers, method, path) ==
  IF layers = <<>> THEN NoReply
  ELSE IF Matches(Head(layers), method, path) THEN Reply(Head(layers), method)
  ELSE Dispatch(Tail(layers), method, path)

\* The module body. connectDB throws before its await when the URI has no
\* mongodb scheme; its catch then exits the process on the spot.
LoadModule(uriValid) ==
  /\ proc = "loading"
  /\ IF uriValid
       THEN /\ stack' = BaseLayers \o TailLayers
            /\ db' = "connecting"
            /\ proc' = "running"
       ELSE /\ stack' = BaseLayers
            /\ db' = "failed"
            /\ proc' = "exited"
  /\ UNCHANGED <<accepts, reqLog>>

\* app.listen's socket is bound.
Listening ==
  /\ proc = "running"
  /\ ~accepts
  /\ accepts' = TRUE
  /\ UNCHANGED <<stack, proc, db, reqLog>>

\* mongoose.connect resolves: connectDB returns and the async block mounts the item routes.
ConnectResolves ==
  /\ proc = "running" /\ db = "connecting"
  /\ db' = "connected"
  /\ stack' = Append(stack, "itemRoutes")
  /\ UNCHANGED <<proc, accepts, reqLog>>

\* mongoose.connect rejects: the catch of connectDB calls process.exit(1), so
\* connectDB never rejects and the catch of the async block never runs.
ConnectRejects ==
  /\ proc = "running" /\ db = "connecting"
  /\ db' = "failed"
  /\ proc' = "exited"
  /\ accepts' = FALSE
  /\ UNCHANGED <<stack, reqLog>>

\* A client sends a request; a process that is gone or not yet listening gives no reply.
Request(method, path) ==
  /\ proc # "loading"
  /\ Len(reqLog) < MaxRequests
  /\ LET reply == IF proc = "running" /\ accepts
                    THEN Dispatch(stack, method, path) ELSE NoReply IN
       reqLog' = Append(reqLog, [method |-> method, path |-> path, db |-> db,
                                 by |-> reply.by, status |-> reply.status,
                                 error |-> reply.error])
  /\ UNCHANGED <<stack, proc, db, accepts>>

----------------------------------------------------------------------------
\* The specifications. Each takes the steps of one part of the program and
\* leaves the state of the other parts alone.

\* Before anything has run.
SystemInit == Init /\ ReachInit /\ ChatInit /\ ServerInit

Next ==
  \/ \E c \in Conns, token \in Tokens :
       Handshake(c, token) /\ UNCHANGED <<announced, chatVars, serverVars>>
  \/ \E c \in Conns, outcome \in FindOutcomes :
       FindByIdDone(c, outcome) /\ UNCHANGED <<announced, chatVars, serverVars>>
  \/ \E c \in Conns, userId \in UserIds :
       OnAddUser(c, userId) /\ UNCHANGED <<announced, chatVars, serverVars>>
  \/ \E c \in Conns, senderId \in SenderIds, receiverId \in UserIds,
        chatId \in ChatIds, content \in Contents :
       OnSendMessage(c, senderId, receiverId, chatId, content)
         /\ UNCHANGED <<announced, chatVars, serverVars>>
  \/ \E c \in Conns, chatId \in ChatIds, userId \in UserIds :
       OnTyping(c, chatId, userId) /\ UNCHANGED <<announced, chatVars, serverVars>>
  \/ \E c \in Conns, chatId \in ChatIds, userId \in UserIds :
       OnStopTyping(c, chatId, userId) /\ UNCHANGED <<announced, chatVars, serverVars>>
  \/ \E c \in Conns, chatId \in ChatIds, userId \in UserIds,
        messageIds \in MessageIdLists :
       OnMarkAsRead(c, chatId, userId, messageIds)
         /\ UNCHANGED <<announced, chatVars, serverVars>>
  \/ \E c \in Conns :
       OnDisconnect(c) /\ UNCHANGED <<announced, chatVars, serverVars>>

Spec == SystemInit /\ [][Next]_vars

\* The socket layer with the addUser history kept.
ReachNext ==
  \/ \E c \in Conns, token \in Tokens :
       Handshake(c, token) /\ UNCHANGED <<announced, chatVars, serverVars>>
  \/ \E c \in Conns, outcome \in FindOutcomes :
       FindByIdDone(c, outcome) /\ UNCHANGED <<announced, chatVars, serverVars>>
  \/ \E c \in Conns, userId \in UserIds :
       /\ OnAddUser(c, userId)
       /\ announced' = [announced EXCEPT ![c] = @ \cup {userId}]
       /\ UNCHANGED <<chatVars, serverVars>>
  \/ \E c \in Conns, senderId \in SenderIds, receiverId \in UserIds,
        chatId \in ChatIds, content \in Contents :
       OnSendMessage(c, senderId, receiverId, chatId, content)
         /\ UNCHANGED <<announced, chatVars, serverVars>>
  \/ \E c \in Conns, chatId \in ChatIds, userId \in UserIds :
       OnTyping(c, chatId, userId) /\ UNCHANGED <<announced, chatVars, serverVars>>
  \/ \E c \in Conns, chatId \in ChatIds, userId \in UserIds :
       OnStopTyping(c, chatId, userId) /\ UNCHANGED <<announced, chatVars, serverVars>>
  \/ \E c \in Conns, chatId \in ChatIds, userId \in UserIds,
        messageIds \in MessageIdLists :
       OnMarkAsRead(c, chatId, userId, messageIds)
         /\ UNCHANGED <<announced, chatVars, serverVars>>
  \/ \E c \in Conns :
       /\ OnDisconnect(c)
       /\ announced' = [announced EXCEPT ![c] = {}]
       /\ UNCHANGED <<chatVars, serverVars>>

reachVars == <<vars, announced>>

SpecReach == SystemInit /\ [][ReachNext]_reachVars

\* The chat controller.
ChatNext ==
  \/ \E r \in Reqs, caller \in UserIds, participants \in ParticipantLists :
       ChatStart(r, caller, participants) /\ UNCHANGED <<vars, announced, serverVars>>
  \/ \E r \in Reqs : ChatCountDone(r) /\ UNCHANGED <<vars, announced, serverVars>>
  \/ \E r \in Reqs : ChatFindOneDone(r) /\ UNCHANGED <<vars, announced, serverVars>>
  \/ \E r \in Reqs : ChatCreateDone(r) /\ UNCHANGED <<vars, announced, serverVars>>
  \/ \E r \in Reqs : ChatPopulateDone(r) /\ UNCHANGED <<vars, announced, serverVars>>
  \/ \E r \in Reqs, senderId \in UserIds, content \in Contents,
        chatId \in ChatIdInputs, receiverId \in {NoId} \cup AnyUserIds :
       MsgStart(r, senderId, content, chatId, receiverId)
         /\ UNCHANGED <<vars, announced, serverVars>>
  \/ \E r \in Reqs : MsgFindReceiverDone(r) /\ UNCHANGED <<vars, announced, serverVars>>
  \/ \E r \in Reqs : MsgFindChatDone(r) /\ UNCHANGED <<vars, announced, serverVars>>
  \/ \E r \in Reqs : MsgCreateChatDone(r) /\ UNCHANGED <<vars, announced, serverVars>>
  \/ \E r \in Reqs : MsgVerifyDone(r) /\ UNCHANGED <<vars, announced, serverVars>>
  \/ \E r \in Reqs : MsgCreateMessageDone(r) /\ UNCHANGED <<vars, announced, serverVars>>
  \/ \E r \in Reqs : MsgPopulateDone(r) /\ UNCHANGED <<vars, announced, serverVars>>

SpecChat == SystemInit /\ [][ChatNext]_chatVars

\* Server start-up and request dispatch.
ServerNext ==
  \/ \E uriValid \in BOOLEAN :
       LoadModule(uriValid) /\ UNCHANGED <<vars, announced, chatVars>>
  \/ Listening /\ UNCHANGED <<vars, announced, chatVars>>
  \/ ConnectResolves /\ UNCHANGED <<vars, announced, chatVars>>
  \/ ConnectRejects /\ UNCHANGED <<vars, announced, chatVars>>
  \/ \E method \in Methods, path \in Paths :
       Request(method, path) /\ UNCHANGED <<vars, announced, chatVars>>

SpecServer == SystemInit /\ [][ServerNext]_serverVars

----------------------------------------------------------------------------
\* Vocabulary of the properties.

\* The socket ids bound in a registry.
Sockets(us) == {us[i].socketId : i \in DOMAIN us}

\* lookup(u) finds a record.
Registered(us, userId) == \E i \in DOMAIN us : us[i].userId = userId

\* The number of emissions of the last step that socket c receives.
Received(c) == Cardinality({i \in DOMAIN emitted : c \in emitted[i].to})

\* The number of records of the registry that bind socket c under an id other than userId.
RecordsFor(c, userId) ==
  Cardinality({i \in DOMAIN users : users[i].socketId = c /\ users[i].userId # userId})

NotifyOps == {"typing", "stopTyping", "markAsRead"}

NotifyEvent(op) ==
  IF op = "typing" THEN "userTyping"
  ELSE IF op = "stopTyping" THEN "userStoppedTyping"
  ELSE "messagesRead"

NotifyData(ev) ==
  IF ev.op = "markAsRead"
    THEN [chatId |-> ev.chatId, userId |-> ev.userId, messageIds |-> ev.messageIds]
    ELSE [chatId |-> ev.chatId, userId |-> ev.userId]

----------------------------------------------------------------------------
\* C1: the registry never holds two records with the same socketId.
\* Stated as the claim states it; the registry check of addUser is on userId
\* only, so one socket that emits addUser under two ids gets two records.
C1_UniqueSocketId ==
  \A i, j \in DOMAIN users : users[i].socketId = users[j].socketId => i = j

\* C2: in every reachable state no two records of the registry share a userId.
C2_UniqueUserId ==
  \A i, j \in DOMAIN users : users[i].userId = users[j].userId => i = j

\* C2 witness: an addUser for an id that another socket already holds has run.
C2_Witness ==
  /\ last.op = "addUser"
  /\ Registered(before, last.userId)
  /\ getUser(users, last.userId).socketId # last.conn
  /\ Len(users) >= 2

\* C3: after addUser(u) on socket c, getUser(u) is the record {u, c}.
\* Stated as the claim states it, for every reachable registry.
C3_LookupAfterRegister ==
  last.op = "addUser" =>
    getUser(users, last.userId) = [userId |-> last.userId, socketId |-> last.conn]

\* C4: after the disconnect of socket c, getUser finds no record for any user
\* whose record was bound to c.
C4_LookupAfterUnregister ==
  last.op = "disconnect" =>
    \A i \in DOMAIN before :
      before[i].socketId = last.conn => getUser(users, before[i].userId) = NoUser

\* C4 witness: a socket holding a record has disconnected while another
\* socket keeps its record.
C4_Witness ==
  /\ last.op = "disconnect"
  /\ last.conn \in Sockets(before)
  /\ users # <<>>

\* C5: a sendMessage whose receiver has a record emits exactly one event, a
\* getMessage carrying the request's senderId, content and chatId, received by
\* the receiver's registered socket and by no other socket.
C5_SendToRegistered ==
  (last.op = "sendMessage" /\ Registered(users, last.receiverId)) =>
    /\ Len(emitted) = 1
    /\ emitted[1].event = "getMessage"
    /\ emitted[1].to = {getUser(users, last.receiverId).socketId}
    /\ emitted[1].data = [senderId |-> last.senderId, content |-> last.content,
                          chatId |-> last.chatId]
    /\ \A c \in Conns :
         Received(c) = IF c = getUser(users, last.receiverId).socketId THEN 1 ELSE 0

\* C5 witness: a message was sent to a receiver registered on another socket
\* than the sender's.
C5_Witness ==
  /\ last.op = "sendMessage"
  /\ Registered(users, last.receiverId)
  /\ getUser(users, last.receiverId).socketId # last.conn
  /\ last.conn \in Sockets(users)

\* C6: a sendMessage whose receiver has no record emits nothing and leaves the
\* registry unchanged; and nothing is kept for later: a getMessage is only ever
\* emitted by the sendMessage step that carries it.
C6_SendToUnregistered ==
  /\ (last.op = "sendMessage" /\ ~Registered(before, last.receiverId)) =>
       (emitted = <<>> /\ users = before)
  /\ \A i \in DOMAIN emitted :
       emitted[i].event = "getMessage" =>
         /\ last.op = "sendMessage"
         /\ emitted[i].data = [senderId |-> last.senderId, content |-> last.content,
                               chatId |-> last.chatId]

\* C6 witness: a message was sent to an unregistered receiver while other
\* users are registered.
C6_Witness ==
  /\ last.op = "sendMessage"
  /\ ~Registered(users, last.receiverId)
  /\ users # <<>>

C8_RegisterIffAbsent ==
  last.op = "addUser" =>
    IF Registered(before, last.userId)
      THEN users = before
      ELSE users = Append(before, [userId |-> last.userId, socketId |-> last.conn])

\* C8 witness: addUser ran for a user already bound to another socket, and the
\* old binding is still there.
C8_Witness ==
  /\ last.op = "addUser"
  /\ Registered(before, last.userId)
  /\ getUser(before, last.userId).socketId # last.conn
  /\ getUser(users, last.userId) = getUser(before, last.userId)

\* C9: every addUser and every disconnect emits exactly one event, a getUsers
\* received by every connected socket, whose roster is the registry after the
\* step.
C9_RosterBroadcast ==
  last.op \in {"addUser", "disconnect"} =>
    /\ Len(emitted) = 1
    /\ emitted[1].event = "getUsers"
    /\ emitted[1].to = Connected(status)
    /\ emitted[1].data = users

\* C9 witness: an addUser that did not change a non-empty registry was
\* followed by the broadcast.
C9_Witness ==
  /\ last.op = "addUser"
  /\ users = before
  /\ users # <<>>
  /\ Len(emitted) = 1

\* C10: a handshake with a missing token, a token failing verification, or a
\* token whose user is not found (or whose lookup throws) is rejected with an
\* 'Authentication error' message; a rejected socket has no handlers, no
\* session user and no record, and stays rejected for ever; a socket whose
\* handlers are installed had its resolved user attached.
AuthenticationErrors == {ErrTokenNotProvided, ErrUserNotFound, ErrInvalidToken}

HandshakeFailed ==
  \/ last.op = "handshake" /\ last.input \in {"missing", "invalid"}
  \/ last.op = "findById" /\ last.userId \in {NullDoc, Throws}

C10_State ==
  /\ HandshakeFailed =>
       (status[last.conn] = "rejected" /\ nextErr \in AuthenticationErrors)
  /\ \A c \in Conns :
       /\ status[c] = "rejected" =>
            (c \notin listening /\ c \notin Sockets(users) /\ dataUser[c] = NoId)
       /\ c \in listening => status[c] \in {"connected", "disconnected"}
       /\ status[c] = "connected" => (c \in listening /\ dataUser[c] \in UserIds)
       /\ c \in Sockets(users) => c \in listening
       /\ (last.conn = c /\ last.op \notin {"handshake", "findById", "init"}) =>
            c \in listening

C10_Step ==
  \A c \in Conns :
    /\ status[c] = "rejected" => status'[c] = "rejected"
    /\ (c \notin listening /\ c \in listening') => dataUser'[c] \in UserIds

C10_RejectedNeverAdmitted == [](C10_State) /\ [][C10_Step]_vars

\* C10 witness: a handshake whose token verified was rejected because
\* findById resolved to no user.
C10_Witness ==
  /\ last.op = "findById"
  /\ last.userId = NullDoc
  /\ status[last.conn] = "rejected"
  /\ nextErr = ErrUserNotFound

\* C11 as the claim states it: every admitted live socket has exactly one
\* record, from the moment its handshake succeeds until its disconnect, and
\* no other socket has any.
C11_OneRecordPerConnection ==
  \A c \in Conns :
    Cardinality({i \in DOMAIN users : users[i].socketId = c})
      = IF status[c] = "connected" THEN 1 ELSE 0

\* C12: only the addUser and disconnect handlers change the registry:
\* handshake steps, sendMessage, typing, stopTyping and markAsRead leave it as
\* it was, and so does the disconnect of a socket that holds no record.
C12_RegistryFrame ==
  /\ last.op \notin {"addUser", "disconnect"} => users = before
  /\ (last.op = "disconnect" /\ last.conn \notin Sockets(before)) => users = before

\* C12 witness: a socket without a record disconnected while the registry
\* held records of others.
C12_Witness ==
  /\ last.op = "disconnect"
  /\ last.conn \notin Sockets(before)
  /\ before # <<>>

\* C13 as the claim states it: the userId of every record is the identity
\* attached to its socket at the handshake, and addUser, typing, stopTyping
\* and markAsRead act under the socket's authenticated id only.
C13_RecordsAreAuthenticated ==
  /\ \A i \in DOMAIN users : users[i].userId = dataUser[users[i].socketId]
  /\ last.op \in NotifyOps \cup {"addUser"} => last.userId = dataUser[last.conn]

\* C14: every record is bound to a socket that is connected now; after a
\* disconnect no record of that socket remains; and every getMessage,
\* userTyping, userStoppedTyping and messagesRead is received by a connected
\* socket, never addressed to a socket that is gone.
DirectedEvents == {"getMessage", "userTyping", "userStoppedTyping", "messagesRead"}

C14_RecordsAreLive ==
  /\ Sockets(users) \subseteq Connected(status)
  /\ last.op = "disconnect" => last.conn \notin Sockets(users)
  /\ \A i \in DOMAIN emitted :
       emitted[i].event \in DirectedEvents =>
         /\ emitted[i].to # {}
         /\ emitted[i].to \subseteq Sockets(users) \cap Connected(status)

\* C14 witness: a socket that held a record has disconnected, and the record
\* went with it.
C14_Witness ==
  /\ last.op = "disconnect"
  /\ status[last.conn] = "disconnected"
  /\ last.conn \in Sockets(before)
  /\ last.conn \notin Sockets(users)

\* C15 as the claim states it: while a connected socket has emitted
\* addUser(u), getUser(u) finds a record (so a sendMessage to u is delivered).
C15_ReachableWhileLive ==
  \A c \in Conns, u \in UserIds :
    (status[c] = "connected" /\ u \in announced[c]) => Registered(users, u)

\* C16 as the claim states it: after any interleaving of createOrGetChat and
\* receiver-addressed sendMessage requests, no two chats have the same
\* participant set.
C16_OneChatPerParticipantSet ==
  \A i, j \in DOMAIN chats : Range(chats[i]) = Range(chats[j]) => i = j

\* C17 as the claim states it: a request to /api/items sent once the database
\* connection has succeeded is answered by the item routes, and one sent after
\* the connection failed is answered 503 'Database connection failed'.
C17_ItemsMountedAfterConnect ==
  \A i \in DOMAIN reqLog :
    reqLog[i].path = "/api/items" =>
      /\ reqLog[i].db = "connected" => reqLog[i].by = "itemRoutes"
      /\ reqLog[i].db = "failed" =>
           (reqLog[i].status = 503 /\ reqLog[i].error = "Database connection failed")

====
